---------------------------- MODULE Spec2Model ----------------------------
(***************************************************************************)
(* A model of PyCrypto: the number-theory toolkit (src/src/math_utils.py), *)
(* textbook RSA (src/src/rsa.py), the AES block cipher (src/src/aes.py)    *)
(* and SHA-256 (src/src/sha256.py).                                        *)
(*                                                                         *)
(* Python integers are unbounded, so no operation of the program wraps.    *)
(* TLC's integers are 32 bits wide: the model keeps every intermediate     *)
(* value below 2^31 by exploring the RSA key generation at reduced key     *)
(* sizes (ScaledMinBits..MaxBits instead of 64 and up), and it holds the   *)
(* 32-bit words of AES and SHA-256 as sequences of bytes.                  *)
(***************************************************************************)
EXTENDS Integers, Sequences, FiniteSets

VARIABLES
    \* ---- one call of a pure function of math_utils.py
    op,         \* the function called: "none", "pow_mod", "egcd", "mod_inverse"
    args,       \* its arguments
    ret,        \* what it returned, or the error it raised
    \* ---- _is_prime_miller_rabin(n, k): one activation
    mr_pc,      \* "idle", "loop" (inside `for _ in range(k)`), "done"
    mr_n,       \* n
    mr_k,       \* k
    mr_i,       \* rounds of the for loop completed
    mr_ret,     \* the value returned (meaningful when mr_pc = "done")
    \* ---- generate_prime(bits): one activation
    gp_pc,      \* "idle", "draw" (top of `while True`), "test", "done"
    gp_bits,    \* bits
    gp_p,       \* the candidate p
    \* ---- rsa.py: generate_keypair, encrypt, decrypt
    rsa_pc,     \* "idle", "gen_p", "gen_q", "gen_e" (in generate_keypair),
                \* "have_key", "keygen_raised", "encrypted", "encrypt_raised",
                \* "decrypted"
    bits,       \* generate_keypair's argument
    p, q,       \* the two primes
    n, phi_n,   \* modulus and totient
    e, d,       \* public and private exponent
    public_key, \* encrypt's argument (e, n)
    message,    \* encrypt's argument (bytes)
    ciphertext, \* encrypt's result (bytes)
    decrypted,  \* decrypt's result (bytes)
    rsa_err,    \* the error raised by the last call, "" when none
    \* ---- aes.py: encrypt_block / decrypt_block
    aes_pc,     \* "idle", "rounds", "final", "returned", "raised"
    aes_op,     \* "encrypt_block" or "decrypt_block"
    block,      \* the call's block argument
    key,        \* the call's key argument
    plaintext,  \* the caller's original block (main.py demo_aes)
    round_keys, \* the key schedule
    state,      \* the 4x4 state, state[r][c] with r, c in 1..4
    aes_i,      \* loop index i of the main rounds
    used_keys,  \* the indexes handed to _add_round_key, in order
    mixed,      \* the rounds (by round key index) in which columns were mixed
    aes_out,    \* the bytes returned, <<>> before
    aes_err,    \* the error raised, "" when none
    \* ---- sha256.py: hash
    sha_pc,     \* "idle", "chunks", "done", "raised"
    sha_msg,    \* message_bytes
    padded,     \* padded_message
    sha_i,      \* loop variable i of `for i in range(0, len(padded_message), 64)`
    chunk_lens, \* the lengths of the chunks handed to _process_chunk
    h,          \* the hash state: eight words
    sha_out,    \* final_hash, "" before
    sha_err     \* the error raised, "" when none

callVars == <<op, args, ret>>
mrVars   == <<mr_pc, mr_n, mr_k, mr_i, mr_ret>>
gpVars   == <<gp_pc, gp_bits, gp_p>>
rsaVars  == <<rsa_pc, bits, p, q, n, phi_n, e, d, public_key, message, ciphertext,
              decrypted, rsa_err>>
aesVars  == <<aes_pc, aes_op, block, key, plaintext, round_keys, state, aes_i,
              used_keys, mixed, aes_out, aes_err>>
shaVars  == <<sha_pc, sha_msg, padded, sha_i, chunk_lens, h, sha_out, sha_err>>
vars     == <<callVars, mrVars, gpVars, rsaVars, aesVars, shaVars>>

(***************************************************************************)
(* Python's integer arithmetic.  // floors and % takes the divisor's sign, *)
(* for every sign of the operands (TLC's \div and % want a positive        *)
(* divisor).                                                               *)
(***************************************************************************)
PyFloorDiv(a, b) == IF b > 0 THEN a \div b ELSE (0 - a) \div (0 - b)

PyMod(a, b) == a - b * PyFloorDiv(a, b)

\* int.bit_length()
RECURSIVE bit_length(_)
bit_length(x) == IF x = 0 THEN 0 ELSE 1 + bit_length(x \div 2)

\* 1 << k
RECURSIVE Pow2(_)
Pow2(k) == IF k = 0 THEN 1 ELSE 2 * Pow2(k - 1)

(***************************************************************************)
(* math_utils.py                                                           *)
(***************************************************************************)
\* The while loop of pow_mod: res, a, b are the loop's variables.
RECURSIVE pow_mod_loop(_, _, _, _)
pow_mod_loop(res, a, b, m) ==
    IF b > 0
    THEN pow_mod_loop(IF b % 2 = 1 THEN (res * a) % m ELSE res,
                      (a * a) % m, b \div 2, m)
    ELSE res

\* A slip a square-and-multiply loop invites: the square is taken before the
\* multiplication instead of after it.
RECURSIVE pow_mod_loop_squares_first(_, _, _, _)
pow_mod_loop_squares_first(res, a, b, m) ==
    IF b > 0
    THEN pow_mod_loop_squares_first(IF b % 2 = 1 THEN (res * ((a * a) % m)) % m ELSE res,
                                    (a * a) % m, b \div 2, m)
    ELSE res

pow_mod_squares_first(a, b, m) == pow_mod_loop_squares_first(1, a % m, b, m)

pow_mod(a, b, m) == pow_mod_loop(1, a % m, b, m)

\* A slip: the recursive call's coefficients are unpacked as g, x, y instead
\* of g, y, x.
RECURSIVE egcd_unswapped(_, _)
egcd_unswapped(a, b) ==
    IF a = 0
    THEN <<b, 0, 1>>
    ELSE LET t == egcd_unswapped(PyMod(b, a), a)
             g == t[1]
             x == t[2]
             y == t[3]
         IN  <<g, x - PyFloorDiv(b, a) * y, y>>

\* egcd(a, b) as a triple <<g, x, y>>.
RECURSIVE egcd(_, _)
egcd(a, b) ==
    IF a = 0
    THEN <<b, 0, 1>>
    ELSE LET t == egcd(PyMod(b, a), a)   \* g, y, x = egcd(b % a, a)
             g == t[1]
             y == t[2]
             x == t[3]
         IN  <<g, x - PyFloorDiv(b, a) * y, y>>

\* mod_inverse(a, m): the value returned, or the ValueError raised.
mod_inverse(a, m) ==
    LET t == egcd(a, m)
        g == t[1]
        x == t[2]
    IN  IF g # 1
        THEN [raised |-> "ValueError: Modular inverse does not exist", value |-> 0]
        ELSE [raised |-> "", value |-> PyMod(x, m)]


\* n - 1 = 2^r * d with d odd: the loop `while d % 2 == 0` (n > 1).
RECURSIVE mr_d(_)
mr_d(dd) == IF dd % 2 = 0 THEN mr_d(dd \div 2) ELSE dd

RECURSIVE mr_r(_)
mr_r(dd) == IF dd % 2 = 0 THEN 1 + mr_r(dd \div 2) ELSE 0

\* `for _ in range(cnt)`: x = pow_mod(x, 2, n); TRUE when some x equals n - 1
\* (the break), FALSE when the loop runs out (the for's else clause).
RECURSIVE mr_squarings(_, _, _)
mr_squarings(x, cnt, nn) ==
    IF cnt <= 0
    THEN FALSE
    ELSE LET x2 == pow_mod(x, 2, nn)
         IN  x2 = nn - 1 \/ mr_squarings(x2, cnt - 1, nn)

\* A slip: the squaring loop runs r times instead of r - 1.
mr_round_one_squaring_more(a, nn) ==
    LET x == pow_mod(a, mr_d(nn - 1), nn)
    IN  x = 1 \/ x = nn - 1 \/ mr_squarings(x, mr_r(nn - 1), nn)

\* A slip: x == 1 is not accepted before the squarings.
mr_round_forgets_one(a, nn) ==
    LET x == pow_mod(a, mr_d(nn - 1), nn)
    IN  x = nn - 1 \/ mr_squarings(x, mr_r(nn - 1) - 1, nn)

\* One round of the for loop with base a: TRUE when the round ends in
\* `continue` or `break`, FALSE when it ends in `return False`.
mr_round(a, nn) ==
    LET x == pow_mod(a, mr_d(nn - 1), nn)
    IN  x = 1 \/ x = nn - 1 \/ mr_squarings(x, mr_r(nn - 1) - 1, nn)

\* random.randrange(2, n - 2)
mr_bases(nn) == 2 .. (nn - 3)

\* random.randrange(1 << (bits - 1), 1 << bits)
gp_range(b) == Pow2(b - 1) .. (Pow2(b) - 1)

\* k's default in _is_prime_miller_rabin(n, k = 40)
DefaultRounds == 40

(***************************************************************************)
(* Bounds of the number-theory exploration.                                *)
(***************************************************************************)
MaxArg == 7         \* pow_mod, egcd, mod_inverse: arguments up to this size
MaxN == 100         \* _is_prime_miller_rabin: n in 0..MaxN
MaxRounds == 2      \* ... with k in 0..MaxRounds, and with the default
MaxPrimeBits == 5   \* generate_prime: bits in 2..MaxPrimeBits

(***************************************************************************)
(* The entry into _is_prime_miller_rabin(nn, kk): the two early returns,   *)
(* and the for loop that ends at once when range(kk) is empty.             *)
(***************************************************************************)
MREnter(nn, kk) ==
    /\ mr_n' = nn
    /\ mr_k' = kk
    /\ mr_i' = 0
    /\ IF nn = 2 \/ nn = 3
       THEN mr_pc' = "done" /\ mr_ret' = TRUE
       ELSE IF nn < 5 \/ nn % 2 = 0
       THEN mr_pc' = "done" /\ mr_ret' = FALSE
       ELSE IF kk <= 0
       THEN mr_pc' = "done" /\ mr_ret' = TRUE
       ELSE mr_pc' = "loop" /\ mr_ret' = FALSE

\* A caller invokes _is_prime_miller_rabin directly.
MRCall(nn, kk) ==
    /\ op = "none" /\ mr_pc = "idle" /\ gp_pc = "idle" /\ rsa_pc = "idle"
    /\ MREnter(nn, kk)
    /\ UNCHANGED <<callVars, gpVars, rsaVars, aesVars, shaVars>>

\* One round of the for loop: draw the base, test it; the function returns
\* False on a failed round and True after the k-th round passed.
MRRound ==
    /\ mr_pc = "loop"
    /\ \E a \in mr_bases(mr_n) :
          IF mr_round(a, mr_n)
          THEN /\ mr_i' = mr_i + 1
               /\ mr_pc' = IF mr_i + 1 >= mr_k THEN "done" ELSE "loop"
               /\ mr_ret' = (mr_i + 1 >= mr_k)
          ELSE /\ mr_i' = mr_i
               /\ mr_pc' = "done"
               /\ mr_ret' = FALSE
    /\ UNCHANGED <<mr_n, mr_k, callVars, gpVars, rsaVars, aesVars, shaVars>>

(***************************************************************************)
(* generate_prime(bits)                                                    *)
(***************************************************************************)
GPEnter(b) ==
    /\ gp_pc' = "draw"
    /\ gp_bits' = b
    /\ gp_p' = 0

\* A caller invokes generate_prime directly.
GPCall(b) ==
    /\ op = "none" /\ mr_pc = "idle" /\ gp_pc = "idle" /\ rsa_pc = "idle"
    /\ GPEnter(b)
    /\ UNCHANGED <<callVars, mrVars, rsaVars, aesVars, shaVars>>

\* A slip: an even draw is kept as it is.
gp_candidate_keeps_even(c) == c

\* The candidate made of a draw c: `if p % 2 == 0: p += 1`.
gp_candidate(c) == IF c % 2 = 0 THEN c + 1 ELSE c

\* The top of `while True`: draw p, make it odd, call the primality test.
GPDraw ==
    /\ gp_pc = "draw"
    /\ \E c \in gp_range(gp_bits) :
          /\ gp_p' = gp_candidate(c)
          /\ MREnter(gp_candidate(c), DefaultRounds)
    /\ gp_pc' = "test"
    /\ UNCHANGED <<gp_bits, callVars, rsaVars, aesVars, shaVars>>

\* The primality test returned: return p, or go round the loop again.
GPCheck ==
    /\ gp_pc = "test" /\ mr_pc = "done"
    /\ gp_pc' = IF mr_ret THEN "done" ELSE "draw"
    /\ mr_pc' = "idle"
    /\ UNCHANGED <<gp_bits, gp_p, mr_n, mr_k, mr_i, mr_ret, callVars, rsaVars, aesVars, shaVars>>

(***************************************************************************)
(* Calls of the pure functions, with arguments from bounded sets.          *)
(***************************************************************************)
CallPowMod ==
    /\ op = "none" /\ mr_pc = "idle" /\ gp_pc = "idle" /\ rsa_pc = "idle"
    /\ \E a \in 0 .. MaxArg, b \in 0 .. MaxArg, m \in 1 .. MaxArg :
          /\ op' = "pow_mod"
          /\ args' = <<a, b, m>>
          /\ ret' = pow_mod(a, b, m)
    /\ UNCHANGED <<mrVars, gpVars, rsaVars, aesVars, shaVars>>

CallEgcd ==
    /\ op = "none" /\ mr_pc = "idle" /\ gp_pc = "idle" /\ rsa_pc = "idle"
    /\ \E a \in (0 - MaxArg) .. MaxArg, b \in (0 - MaxArg) .. MaxArg :
          /\ op' = "egcd"
          /\ args' = <<a, b>>
          /\ ret' = egcd(a, b)
    /\ UNCHANGED <<mrVars, gpVars, rsaVars, aesVars, shaVars>>

CallModInverse ==
    /\ op = "none" /\ mr_pc = "idle" /\ gp_pc = "idle" /\ rsa_pc = "idle"
    /\ \E a \in (0 - MaxArg) .. MaxArg, m \in 1 .. MaxArg :
          /\ op' = "mod_inverse"
          /\ args' = <<a, m>>
          /\ ret' = mod_inverse(a, m)
    /\ UNCHANGED <<mrVars, gpVars, rsaVars, aesVars, shaVars>>

CallIsPrime ==
    \E nn \in 0 .. MaxN, kk \in (0 .. MaxRounds) \cup {DefaultRounds} : MRCall(nn, kk)

CallGeneratePrime ==
    \E b \in 2 .. MaxPrimeBits : GPCall(b)

(***************************************************************************)
(* rsa.py                                                                  *)
(***************************************************************************)
\* int.from_bytes(data, 'big')
RECURSIVE bytes_to_int(_)
bytes_to_int(data) ==
    IF data = <<>>
    THEN 0
    ELSE 256 * bytes_to_int(SubSeq(data, 1, Len(data) - 1)) + data[Len(data)]

\* The n_bytes big-endian digits of a non-negative integer that fits.
RECURSIVE be_digits(_, _)
be_digits(integer, n_bytes) ==
    IF n_bytes = 0
    THEN <<>>
    ELSE Append(be_digits(integer \div 256, n_bytes - 1), integer % 256)

\* A slip: the digits come out least significant first ('little').
RECURSIVE le_digits(_, _)
le_digits(integer, n_bytes) ==
    IF n_bytes = 0
    THEN <<>>
    ELSE <<integer % 256>> \o le_digits(integer \div 256, n_bytes - 1)

int_to_bytes_little(integer, n_bytes) ==
    IF integer < 0 \/ integer \div Pow2(8 * n_bytes) # 0
    THEN [raised |-> "OverflowError", value |-> <<>>]
    ELSE [raised |-> "", value |-> le_digits(integer, n_bytes)]

\* integer.to_bytes(n_bytes, 'big'): the bytes, or the OverflowError of an
\* integer that does not fit (n_bytes stays below 4 here, so that 2^(8*n_bytes)
\* is a TLC integer).
int_to_bytes(integer, n_bytes) ==
    IF integer < 0 \/ integer \div Pow2(8 * n_bytes) # 0
    THEN [raised |-> "OverflowError", value |-> <<>>]
    ELSE [raised |-> "", value |-> be_digits(integer, n_bytes)]

\* A slip: strip(b'\x00') removes the zero bytes at both ends.
RECURSIVE strip_both(_)
strip_both(data) ==
    IF data # <<>> /\ data[1] = 0 THEN strip_both(Tail(data))
    ELSE IF data # <<>> /\ data[Len(data)] = 0
    THEN strip_both(SubSeq(data, 1, Len(data) - 1))
    ELSE data

\* bytes.lstrip(b'\x00')
RECURSIVE lstrip(_)
lstrip(data) ==
    IF data # <<>> /\ data[1] = 0 THEN lstrip(Tail(data)) ELSE data

\* math.ceil(n.bit_length() / 8)
modulus_bytes(nn) == (bit_length(nn) + 7) \div 8

\* A slip: the totient is taken of p and q themselves.
totient_of_the_primes(pp, qq) == pp * qq - 1

\* phi_n = (p - 1) * (q - 1)
totient(pp, qq) == (pp - 1) * (qq - 1)

\* A slip: a message equal to the modulus is let through (m_int > n).
message_too_large_strict(m_int, nn) == m_int > nn

\* if m_int >= n: raise ValueError
message_too_large(m_int, nn) == m_int >= nn

\* encrypt(public_key, message): the ciphertext, or the ValueError raised.
encrypt(pk, msg) ==
    LET ee == pk[1]
        nn == pk[2]
        n_bytes == modulus_bytes(nn)
        m_int == bytes_to_int(msg)
    IN  IF message_too_large(m_int, nn)
        THEN [raised |-> "ValueError: Message size is too large for this key.",
              value |-> <<>>]
        ELSE int_to_bytes(pow_mod(m_int, ee, nn), n_bytes)

\* decrypt(private_key, ciphertext): to_bytes(n_bytes), with the fallback to
\* n_bytes + 1 on OverflowError, then lstrip.
decrypt(sk, ct) ==
    LET dd == sk[1]
        nn == sk[2]
        n_bytes == modulus_bytes(nn)
        c_int == bytes_to_int(ct)
        m_int == pow_mod(c_int, dd, nn)
        fits == int_to_bytes(m_int, n_bytes)
    IN  IF fits.raised = ""
        THEN lstrip(fits.value)
        ELSE lstrip(int_to_bytes(m_int, n_bytes + 1).value)

\* e = 65537
PublicExponent == 65537

\* generate_prime(17): the size of a replacement exponent
ExponentBits == 17

(***************************************************************************)
(* Bounds of the RSA exploration.  generate_keypair rejects bits < 64; a   *)
(* 64-bit modulus is beyond TLC's integers, so key generation is explored  *)
(* with the threshold lowered to ScaledMinBits and bits up to MaxBits.     *)
(* With a totient this small 65537 never shares a factor with it, so the   *)
(* branch that replaces e is modelled but not entered.                     *)
(***************************************************************************)
ScaledMinBits == 10
MaxBits == 12
MaxMsgLen == 2      \* messages of 0..MaxMsgLen bytes
MaxSmallE == 3      \* caller-made public keys (e, n): e in 1..MaxSmallE
MaxSmallN == 40     \* ... and n in 1..MaxSmallN

MsgBytes == {0, 1, 3, 255}

Messages == UNION {[1 .. len -> MsgBytes] : len \in 0 .. MaxMsgLen}

\* generate_keypair(b): the size check, then the first generate_prime call.
GenerateKeypairCall ==
    /\ op = "none" /\ mr_pc = "idle" /\ gp_pc = "idle" /\ rsa_pc = "idle"
    /\ \E b \in (ScaledMinBits - 1) .. MaxBits :
          /\ bits' = b
          /\ IF b < ScaledMinBits
             THEN /\ rsa_pc' = "keygen_raised"
                  /\ rsa_err' = "ValueError: Key size must be at least 64 bits"
                  /\ UNCHANGED gpVars
             ELSE /\ rsa_pc' = "gen_p"
                  /\ rsa_err' = ""
                  /\ GPEnter(b \div 2)
    /\ UNCHANGED <<p, q, n, phi_n, e, d, public_key, message, ciphertext, decrypted,
                   callVars, mrVars, aesVars, shaVars>>

\* generate_keypair from `while math_utils.egcd(e, phi_n)[0] != 1` on, with p and
\* q settled and ee the current exponent: another generate_prime call, or d and
\* the return.
KeypairFinish(pp, qq, ee) ==
    /\ n' = pp * qq
    /\ phi_n' = totient(pp, qq)
    /\ e' = ee
    /\ IF egcd(ee, totient(pp, qq))[1] # 1
       THEN /\ rsa_pc' = "gen_e"
            /\ GPEnter(ExponentBits)
            /\ UNCHANGED <<d, rsa_err>>
       ELSE LET inv == mod_inverse(ee, totient(pp, qq))
            IN  /\ UNCHANGED gpVars
                /\ d' = inv.value
                /\ rsa_err' = inv.raised
                /\ rsa_pc' = IF inv.raised = "" THEN "have_key" ELSE "keygen_raised"

\* generate_keypair goes on when a generate_prime call has returned.
GenerateKeypairResume ==
    /\ gp_pc = "done"
    /\ rsa_pc \in {"gen_p", "gen_q", "gen_e"}
    /\ CASE rsa_pc = "gen_p" ->
              \* p = generate_prime(bits // 2), then the call for q
              /\ p' = gp_p
              /\ rsa_pc' = "gen_q"
              /\ GPEnter(bits \div 2)
              /\ UNCHANGED <<q, n, phi_n, e, d, rsa_err>>
         [] rsa_pc = "gen_q" /\ gp_p = p ->
              \* while p == q: q = generate_prime(bits // 2)
              /\ GPEnter(bits \div 2)
              /\ UNCHANGED <<rsa_pc, p, q, n, phi_n, e, d, rsa_err>>
         [] rsa_pc = "gen_q" /\ gp_p # p ->
              /\ q' = gp_p
              /\ KeypairFinish(p, gp_p, PublicExponent)
              /\ UNCHANGED p
         [] rsa_pc = "gen_e" ->
              \* e = generate_prime(17), and the loop condition again
              /\ KeypairFinish(p, q, gp_p)
              /\ UNCHANGED <<p, q>>
    /\ UNCHANGED <<bits, public_key, message, ciphertext, decrypted,
                   callVars, mrVars, aesVars, shaVars>>

\* The public keys a caller may hand to encrypt: the generated one, or one of
\* its own making.
PublicKeys ==
    IF rsa_pc = "have_key"
    THEN {<<e, n>>}
    ELSE (1 .. MaxSmallE) \X (1 .. MaxSmallN)

\* A caller encrypts a message: main.py demo_rsa with the generated key, or
\* with a key of its own.
Encrypt ==
    /\ op = "none" /\ mr_pc = "idle"
    /\ rsa_pc \in {"idle", "have_key"}
    /\ gp_pc = IF rsa_pc = "idle" THEN "idle" ELSE "done"
    /\ \E pk \in PublicKeys, msg \in Messages :
          LET r == encrypt(pk, msg)
          IN  /\ public_key' = pk
              /\ message' = msg
              /\ ciphertext' = r.value
              /\ rsa_err' = r.raised
              /\ rsa_pc' = IF r.raised = "" THEN "encrypted" ELSE "encrypt_raised"
    /\ UNCHANGED <<bits, p, q, n, phi_n, e, d, decrypted,
                   callVars, mrVars, gpVars, aesVars, shaVars>>

\* The caller decrypts the ciphertext with the generated private key.
Decrypt ==
    /\ rsa_pc = "encrypted"
    /\ public_key = <<e, n>>
    /\ decrypted' = decrypt(<<d, n>>, ciphertext)
    /\ rsa_pc' = "decrypted"
    /\ UNCHANGED <<bits, p, q, n, phi_n, e, d, public_key, message, ciphertext, rsa_err,
                   callVars, mrVars, gpVars, aesVars, shaVars>>

(***************************************************************************)
(* Bytes.  a ^ b on bytes, by nibbles.                                     *)
(***************************************************************************)
RECURSIVE XorBits(_, _, _)
XorBits(a, b, width) ==
    IF width = 0 THEN 0
    ELSE ((a + b) % 2) + 2 * XorBits(a \div 2, b \div 2, width - 1)

XorNibble == [a \in 0 .. 15 |-> [b \in 0 .. 15 |-> XorBits(a, b, 4)]]

Xor8(a, b) == 16 * XorNibble[a \div 16][b \div 16] + XorNibble[a % 16][b % 16]

(***************************************************************************)
(* aes_common.py (S_BOX, INV_S_BOX, RCON, gmul) is imported by aes.py and  *)
(* is not among the source files: these four follow the specification, the *)
(* AES substitution table and its inverse, the round constants x^(j-1),    *)
(* and the multiplication of GF(2^8) modulo x^8 + x^4 + x^3 + x + 1.       *)
(***************************************************************************)
S_BOX ==
    << 99, 124, 119, 123, 242, 107, 111, 197,  48,   1, 103,  43, 254, 215, 171, 118,
      202, 130, 201, 125, 250,  89,  71, 240, 173, 212, 162, 175, 156, 164, 114, 192,
      183, 253, 147,  38,  54,  63, 247, 204,  52, 165, 229, 241, 113, 216,  49,  21,
        4, 199,  35, 195,  24, 150,   5, 154,   7,  18, 128, 226, 235,  39, 178, 117,
        9, 131,  44,  26,  27, 110,  90, 160,  82,  59, 214, 179,  41, 227,  47, 132,
       83, 209,   0, 237,  32, 252, 177,  91, 106, 203, 190,  57,  74,  76,  88, 207,
      208, 239, 170, 251,  67,  77,  51, 133,  69, 249,   2, 127,  80,  60, 159, 168,
       81, 163,  64, 143, 146, 157,  56, 245, 188, 182, 218,  33,  16, 255, 243, 210,
      205,  12,  19, 236,  95, 151,  68,  23, 196, 167, 126,  61, 100,  93,  25, 115,
       96, 129,  79, 220,  34,  42, 144, 136,  70, 238, 184,  20, 222,  94,  11, 219,
      224,  50,  58,  10,  73,   6,  36,  92, 194, 211, 172,  98, 145, 149, 228, 121,
      231, 200,  55, 109, 141, 213,  78, 169, 108,  86, 244, 234, 101, 122, 174,   8,
      186, 120,  37,  46,  28, 166, 180, 198, 232, 221, 116,  31,  75, 189, 139, 138,
      112,  62, 181, 102,  72,   3, 246,  14,  97,  53,  87, 185, 134, 193,  29, 158,
      225, 248, 152,  17, 105, 217, 142, 148, 155,  30, 135, 233, 206,  85,  40, 223,
      140, 161, 137,  13, 191, 230,  66, 104,  65, 153,  45,  15, 176,  84, 187,  22>>
INV_S_BOX ==
    << 82,   9, 106, 213,  48,  54, 165,  56, 191,  64, 163, 158, 129, 243, 215, 251,
      124, 227,  57, 130, 155,  47, 255, 135,  52, 142,  67,  68, 196, 222, 233, 203,
       84, 123, 148,  50, 166, 194,  35,  61, 238,  76, 149,  11,  66, 250, 195,  78,
        8,  46, 161, 102,  40, 217,  36, 178, 118,  91, 162,  73, 109, 139, 209,  37,
      114, 248, 246, 100, 134, 104, 152,  22, 212, 164,  92, 204,  93, 101, 182, 146,
      108, 112,  72,  80, 253, 237, 185, 218,  94,  21,  70,  87, 167, 141, 157, 132,
      144, 216, 171,   0, 140, 188, 211,  10, 247, 228,  88,   5, 184, 179,  69,   6,
      208,  44,  30, 143, 202,  63,  15,   2, 193, 175, 189,   3,   1,  19, 138, 107,
       58, 145,  17,  65,  79, 103, 220, 234, 151, 242, 207, 206, 240, 180, 230, 115,
      150, 172, 116,  34, 231, 173,  53, 133, 226, 249,  55, 232,  28, 117, 223, 110,
       71, 241,  26, 113,  29,  41, 197, 137, 111, 183,  98,  14, 170,  24, 190,  27,
      252,  86,  62,  75, 198, 210, 121,  32, 154, 219, 192, 254, 120, 205,  90, 244,
       31, 221, 168,  51, 136,   7, 199,  49, 177,  18,  16,  89,  39, 128, 236,  95,
       96,  81, 127, 169,  25, 181,  74,  13,  45, 229, 122, 159, 147, 201, 156, 239,
      160, 224,  59,  77, 174,  42, 245, 176, 200, 235, 187,  60, 131,  83, 153,  97,
       23,  43,   4, 126, 186, 119, 214,  38, 225, 105,  20,  99,  85,  33,  12, 125>>

\* RCON[j] for j in 0..10 is RCON[j + 1] here; RCON[0] is never used.
RCON == <<0, 1, 2, 4, 8, 16, 32, 64, 128, 27, 54>>

\* gmul(a, b): shift-and-add over 8 bits of b, reducing a by 0x1B whenever its
\* bit 7 is shifted out.
RECURSIVE gmul_loop(_, _, _, _)
gmul_loop(a, b, acc, cnt) ==
    IF cnt = 0 THEN acc
    ELSE gmul_loop(IF a >= 128 THEN Xor8((2 * a) % 256, 27) ELSE 2 * a,
                   b \div 2,
                   IF b % 2 = 1 THEN Xor8(acc, a) ELSE acc,
                   cnt - 1)

gmul(a, b) == gmul_loop(a, b, 0, 8)

(***************************************************************************)
(* aes.py.  The state is state[r][c] with r, c in 0..3, as in the code;    *)
(* byte strings are sequences, so data[i] of the code is data[i + 1] here. *)
(***************************************************************************)
Rows == 0 .. 3

\* _sub_bytes
sub_bytes(st) == [r \in Rows |-> [c \in Rows |-> S_BOX[st[r][c] + 1]]]

\* _inv_sub_bytes
inv_sub_bytes(st) == [r \in Rows |-> [c \in Rows |-> INV_S_BOX[st[r][c] + 1]]]

\* _shift_rows: the three tuple assignments
shift_rows(st) ==
    [r \in Rows |->
        CASE r = 0 -> st[0]
          [] r = 1 -> [c \in Rows |-> <<st[1][1], st[1][2], st[1][3], st[1][0]>>[c + 1]]
          [] r = 2 -> [c \in Rows |-> <<st[2][2], st[2][3], st[2][0], st[2][1]>>[c + 1]]
          [] r = 3 -> [c \in Rows |-> <<st[3][3], st[3][0], st[3][1], st[3][2]>>[c + 1]]]

\* A slip: row 3 is shifted the same way as in _shift_rows.
inv_shift_rows_row3_left(st) ==
    [r \in Rows |->
        CASE r = 0 -> st[0]
          [] r = 1 -> [c \in Rows |-> <<st[1][3], st[1][0], st[1][1], st[1][2]>>[c + 1]]
          [] r = 2 -> [c \in Rows |-> <<st[2][2], st[2][3], st[2][0], st[2][1]>>[c + 1]]
          [] r = 3 -> [c \in Rows |-> <<st[3][3], st[3][0], st[3][1], st[3][2]>>[c + 1]]]

\* _inv_shift_rows
inv_shift_rows(st) ==
    [r \in Rows |->
        CASE r = 0 -> st[0]
          [] r = 1 -> [c \in Rows |-> <<st[1][3], st[1][0], st[1][1], st[1][2]>>[c + 1]]
          [] r = 2 -> [c \in Rows |-> <<st[2][2], st[2][3], st[2][0], st[2][1]>>[c + 1]]
          [] r = 3 -> [c \in Rows |-> <<st[3][1], st[3][2], st[3][3], st[3][0]>>[c + 1]]]

Xor4(a, b, c, dd) == Xor8(Xor8(a, b), Xor8(c, dd))

\* _mix_columns
mix_columns(st) ==
    [r \in Rows |-> [c \in Rows |->
        LET s0 == st[0][c]
            s1 == st[1][c]
            s2 == st[2][c]
            s3 == st[3][c]
        IN  CASE r = 0 -> Xor4(gmul(s0, 2), gmul(s1, 3), gmul(s2, 1), gmul(s3, 1))
              [] r = 1 -> Xor4(gmul(s0, 1), gmul(s1, 2), gmul(s2, 3), gmul(s3, 1))
              [] r = 2 -> Xor4(gmul(s0, 1), gmul(s1, 1), gmul(s2, 2), gmul(s3, 3))
              [] r = 3 -> Xor4(gmul(s0, 3), gmul(s1, 1), gmul(s2, 1), gmul(s3, 2))]]

\* _inv_mix_columns
inv_mix_columns(st) ==
    [r \in Rows |-> [c \in Rows |->
        LET s0 == st[0][c]
            s1 == st[1][c]
            s2 == st[2][c]
            s3 == st[3][c]
        IN  CASE r = 0 -> Xor4(gmul(s0, 14), gmul(s1, 11), gmul(s2, 13), gmul(s3, 9))
              [] r = 1 -> Xor4(gmul(s0, 9), gmul(s1, 14), gmul(s2, 11), gmul(s3, 13))
              [] r = 2 -> Xor4(gmul(s0, 13), gmul(s1, 9), gmul(s2, 14), gmul(s3, 11))
              [] r = 3 -> Xor4(gmul(s0, 11), gmul(s1, 13), gmul(s2, 9), gmul(s3, 14))]]

\* _add_round_key: state[r][c] ^= round_key[c*4 + r]
add_round_key(st, round_key) ==
    [r \in Rows |-> [c \in Rows |-> Xor8(st[r][c], round_key[c * 4 + r + 1])]]

\* _bytes_to_state: state[r][c] = data[c*4 + r]
bytes_to_state(data) == [r \in Rows |-> [c \in Rows |-> data[c * 4 + r + 1]]]

\* _state_to_bytes: state[r][c] for c in range(4) for r in range(4)
state_to_bytes(st) == [i \in 1 .. 16 |-> st[(i - 1) % 4][(i - 1) \div 4]]

(***************************************************************************)
(* _key_expansion.  A 32-bit word is the sequence of its four bytes, most  *)
(* significant first: int.from_bytes(key[4i : 4i+4], 'big') and            *)
(* word.to_bytes(4, 'big') are then the bytes themselves.                  *)
(***************************************************************************)
\* ((temp << 8) & 0xFFFFFF00) | ((temp >> 24) & 0x000000FF)
RotWord(w) == <<w[2], w[3], w[4], w[1]>>

\* S_BOX applied to each byte of the word
SubWord(w) == <<S_BOX[w[1] + 1], S_BOX[w[2] + 1], S_BOX[w[3] + 1], S_BOX[w[4] + 1]>>

XorWord(a, b) == <<Xor8(a[1], b[1]), Xor8(a[2], b[2]), Xor8(a[3], b[3]), Xor8(a[4], b[4])>>

\* A slip: the key is accepted only at the AES-128 length.
valid_key_len_128_only(key_len) == key_len = 16

\* key_len in [16, 24, 32]
valid_key_len(key_len) == key_len \in {16, 24, 32}

\* Nr = 10 + (Nk - 4) * 2
rounds_for(Nk) == 10 + (Nk - 4) * 2

\* The loop `for i in range(Nk, Nb * (Nr + 1))`: w holds the words 0..i-1 (as
\* w[1..i], so that i is Len(w)), total is Nb * (Nr + 1).
RECURSIVE expand_words(_, _, _)
expand_words(w, total, Nk) ==
    IF Len(w) >= total THEN w
    ELSE LET i == Len(w)
             prev == w[i]                       \* temp = w[i-1]
             temp == IF i % Nk = 0
                     THEN LET sub == SubWord(RotWord(prev))
                          IN  <<Xor8(sub[1], RCON[(i \div Nk) + 1]), sub[2], sub[3], sub[4]>>
                     ELSE IF Nk > 6 /\ i % Nk = 4
                     THEN SubWord(prev)
                     ELSE prev
         IN  expand_words(Append(w, XorWord(w[i - Nk + 1], temp)), total, Nk)

\* _key_expansion(key) for a key of valid length: round_keys[i] for i in 0..Nr,
\* each the 16 bytes of the words w[4i .. 4i+3].
key_expansion(k) ==
    LET Nk == Len(k) \div 4
        Nr == rounds_for(Nk)
        first == [i \in 1 .. Nk |-> <<k[4 * i - 3], k[4 * i - 2], k[4 * i - 1], k[4 * i]>>]
        w == expand_words(first, 4 * (Nr + 1), Nk)
    IN  [i \in 0 .. Nr |-> w[4 * i + 1] \o w[4 * i + 2] \o w[4 * i + 3] \o w[4 * i + 4]]

\* Nr = len(round_keys) - 1
NrOf(rks) == Cardinality(DOMAIN rks) - 1

(***************************************************************************)
(* Bounds and inputs of the AES exploration.  Blocks and keys of every     *)
(* length up to the bound; byte i (from 0) of a block or key with pattern  *)
(* <<mult, add>> is (mult * i + add) mod 256.  <<17, 0>> and <<1, 0>> are  *)
(* the plaintext 00 11 22 .. ff and the keys 00 01 02 .. of FIPS-197       *)
(* appendix C.                                                             *)
(***************************************************************************)
MaxBlockLen == 17
MaxKeyLen == 33

BlockPatterns == {<<17, 0>>, <<0, 0>>, <<89, 255>>}

KeyPatterns == {<<1, 0>>, <<0, 0>>, <<101, 43>>}

Pattern(len, pat) == [i \in 1 .. len |-> (pat[1] * (i - 1) + pat[2]) % 256]

Blocks == {Pattern(len, pat) : len \in 0 .. MaxBlockLen, pat \in BlockPatterns}

Keys == {Pattern(len, pat) : len \in 0 .. MaxKeyLen, pat \in KeyPatterns}

\* The head of encrypt_block and decrypt_block: the two length checks.
BlockError(blk, k) ==
    IF Len(blk) # 16 THEN "ValueError: Block must be 16 bytes"
    ELSE IF ~valid_key_len(Len(k))
    THEN "ValueError: Invalid key length: must be 16, 24, or 32 bytes"
    ELSE ""

\* A block call that raises: nothing is returned.
AesRaise(blk, k) ==
    /\ aes_pc' = "raised"
    /\ aes_err' = BlockError(blk, k)
    /\ aes_out' = <<>>
    /\ round_keys' = <<>>
    /\ state' = <<>>
    /\ aes_i' = 0
    /\ used_keys' = <<>>
    /\ mixed' = {}

\* encrypt_block(blk, k) up to the loop: the checks, the key schedule, the
\* state and the initial _add_round_key.
EncryptBlockEnter(blk, k) ==
    /\ aes_op' = "encrypt_block"
    /\ block' = blk
    /\ key' = k
    /\ IF BlockError(blk, k) # ""
       THEN AesRaise(blk, k)
       ELSE LET rks == key_expansion(k)
            IN  /\ round_keys' = rks
                /\ state' = add_round_key(bytes_to_state(blk), rks[0])
                /\ used_keys' = <<0>>
                /\ mixed' = {}
                /\ aes_i' = 1
                /\ aes_pc' = "rounds"
                /\ aes_out' = <<>>
                /\ aes_err' = ""

\* decrypt_block(blk, k) up to the loop.
DecryptBlockEnter(blk, k) ==
    /\ aes_op' = "decrypt_block"
    /\ block' = blk
    /\ key' = k
    /\ IF BlockError(blk, k) # ""
       THEN AesRaise(blk, k)
       ELSE LET rks == key_expansion(k)
                Nr == NrOf(rks)
            IN  /\ round_keys' = rks
                /\ state' = add_round_key(bytes_to_state(blk), rks[Nr])
                /\ used_keys' = <<Nr>>
                /\ mixed' = {}
                /\ aes_i' = Nr - 1
                /\ aes_pc' = "rounds"
                /\ aes_out' = <<>>
                /\ aes_err' = ""

\* A caller encrypts a block (main.py demo_aes).
EncryptBlockCall ==
    /\ aes_pc = "idle"
    /\ \E blk \in Blocks, k \in Keys :
          /\ plaintext' = blk
          /\ EncryptBlockEnter(blk, k)
    /\ UNCHANGED <<callVars, mrVars, gpVars, rsaVars, shaVars>>

\* A caller decrypts a block of its own.
DecryptBlockCall ==
    /\ aes_pc = "idle"
    /\ \E blk \in Blocks, k \in Keys :
          /\ plaintext' = <<>>
          /\ DecryptBlockEnter(blk, k)
    /\ UNCHANGED <<callVars, mrVars, gpVars, rsaVars, shaVars>>

\* The caller decrypts what encrypt_block returned, under the same key
\* (main.py demo_aes).
DecryptEncrypted ==
    /\ aes_pc = "returned" /\ aes_op = "encrypt_block"
    /\ DecryptBlockEnter(aes_out, key)
    /\ UNCHANGED <<plaintext, callVars, mrVars, gpVars, rsaVars, shaVars>>

\* One pass of `for i in range(1, Nr)` in encrypt_block.
EncryptRound ==
    /\ aes_pc = "rounds" /\ aes_op = "encrypt_block"
    /\ state' = add_round_key(mix_columns(shift_rows(sub_bytes(state))), round_keys[aes_i])
    /\ used_keys' = Append(used_keys, aes_i)
    /\ mixed' = mixed \cup {aes_i}
    /\ aes_i' = aes_i + 1
    /\ aes_pc' = IF aes_i + 1 < NrOf(round_keys) THEN "rounds" ELSE "final"
    /\ UNCHANGED <<aes_op, block, key, plaintext, round_keys, aes_out, aes_err,
                   callVars, mrVars, gpVars, rsaVars, shaVars>>

\* The final round of encrypt_block (no _mix_columns) and the return.
EncryptFinal ==
    /\ aes_pc = "final" /\ aes_op = "encrypt_block"
    /\ LET Nr == NrOf(round_keys)
           last == add_round_key(shift_rows(sub_bytes(state)), round_keys[Nr])
       IN  /\ state' = last
           /\ used_keys' = Append(used_keys, Nr)
           /\ aes_out' = state_to_bytes(last)
    /\ aes_pc' = "returned"
    /\ UNCHANGED <<aes_op, block, key, plaintext, round_keys, aes_i, mixed, aes_err,
                   callVars, mrVars, gpVars, rsaVars, shaVars>>

\* One pass of `for i in range(Nr - 1, 0, -1)` in decrypt_block.
DecryptRound ==
    /\ aes_pc = "rounds" /\ aes_op = "decrypt_block"
    /\ state' = inv_mix_columns(
                    add_round_key(inv_sub_bytes(inv_shift_rows(state)), round_keys[aes_i]))
    /\ used_keys' = Append(used_keys, aes_i)
    /\ mixed' = mixed \cup {aes_i}
    /\ aes_i' = aes_i - 1
    /\ aes_pc' = IF aes_i - 1 > 0 THEN "rounds" ELSE "final"
    /\ UNCHANGED <<aes_op, block, key, plaintext, round_keys, aes_out, aes_err,
                   callVars, mrVars, gpVars, rsaVars, shaVars>>

\* The final round of decrypt_block (no _inv_mix_columns) and the return.
DecryptFinal ==
    /\ aes_pc = "final" /\ aes_op = "decrypt_block"
    /\ LET last == add_round_key(inv_sub_bytes(inv_shift_rows(state)), round_keys[0])
       IN  /\ state' = last
           /\ used_keys' = Append(used_keys, 0)
           /\ aes_out' = state_to_bytes(last)
    /\ aes_pc' = "returned"
    /\ UNCHANGED <<aes_op, block, key, plaintext, round_keys, aes_i, mixed, aes_err,
                   callVars, mrVars, gpVars, rsaVars, shaVars>>

(***************************************************************************)
(* sha256.py.  A 32-bit word is the sequence of its four bytes, most       *)
(* significant first, as struct.unpack('>I', ...) reads it.                *)
(***************************************************************************)
RECURSIVE AndBits(_, _, _)
AndBits(a, b, width) ==
    IF width = 0 THEN 0
    ELSE ((a % 2) * (b % 2)) + 2 * AndBits(a \div 2, b \div 2, width - 1)

AndNibble == [a \in 0 .. 15 |-> [b \in 0 .. 15 |-> AndBits(a, b, 4)]]

And8(a, b) == (16 * AndNibble[a \div 16][b \div 16]) + AndNibble[a % 16][b % 16]

AndWord(a, b) == <<And8(a[1], b[1]), And8(a[2], b[2]), And8(a[3], b[3]), And8(a[4], b[4])>>

\* ~x, within the 32 bits that the following & keeps
NotWord(a) == <<255 - a[1], 255 - a[2], 255 - a[3], 255 - a[4]>>

\* The word's byte j (1..4) after a move right by q whole bytes; bytes moved in
\* from the left are those of `fill`.
ByteRight(w, fill, whole, j) == IF j - whole >= 1 THEN w[j - whole] ELSE fill[j - whole + 4]

\* The 32 bits of w moved right by cnt (0..31) places, the places vacated on the
\* left taken from the low end of `fill`.
MoveRight(w, fill, cnt) ==
    LET whole == cnt \div 8
        part == cnt % 8
        low == Pow2(part)
        high == Pow2(8 - part)
        moved(j) == (ByteRight(w, fill, whole, j) \div low)
                    + ((ByteRight(w, fill, whole + 1, j) % low) * high)
    IN  <<moved(1), moved(2), moved(3), moved(4)>>

ZeroWord == <<0, 0, 0, 0>>

\* x >> cnt
shr(x, cnt) == MoveRight(x, ZeroWord, cnt)

\* _rotr(x, n): ((x >> n) | (x << (32 - n))) & mask
rotr(x, cnt) == MoveRight(x, x, cnt)

\* _ch
ch(x, y, z) == XorWord(AndWord(x, y), AndWord(NotWord(x), z))

\* _maj
maj(x, y, z) == XorWord(XorWord(AndWord(x, y), AndWord(x, z)), AndWord(y, z))

\* _sigma0
sigma0(x) == XorWord(XorWord(rotr(x, 2), rotr(x, 13)), rotr(x, 22))

\* _sigma1
sigma1(x) == XorWord(XorWord(rotr(x, 6), rotr(x, 11)), rotr(x, 25))

\* A slip: the last term of _gamma0 rotates by 3 where it should shift.
gamma0_rotates_three(x) == XorWord(XorWord(rotr(x, 7), rotr(x, 18)), rotr(x, 3))

\* _gamma0
gamma0(x) == XorWord(XorWord(rotr(x, 7), rotr(x, 18)), shr(x, 3))

\* _gamma1
gamma1(x) == XorWord(XorWord(rotr(x, 17), rotr(x, 19)), shr(x, 10))

\* _add: (a + b) & 0xFFFFFFFF, byte by byte with the carry
add(a, b) ==
    LET s4 == a[4] + b[4]
        s3 == a[3] + b[3] + (s4 \div 256)
        s2 == a[2] + b[2] + (s3 \div 256)
        s1 == a[1] + b[1] + (s2 \div 256)
    IN  <<s1 % 256, s2 % 256, s3 % 256, s4 % 256>>

\* K
K ==
    <<<<66, 138, 47, 152>>, <<113, 55, 68, 145>>, <<181, 192, 251, 207>>, <<233, 181, 219, 165>>,
      <<57, 86, 194, 91>>, <<89, 241, 17, 241>>, <<146, 63, 130, 164>>, <<171, 28, 94, 213>>,
      <<216, 7, 170, 152>>, <<18, 131, 91, 1>>, <<36, 49, 133, 190>>, <<85, 12, 125, 195>>,
      <<114, 190, 93, 116>>, <<128, 222, 177, 254>>, <<155, 220, 6, 167>>, <<193, 155, 241, 116>>,
      <<228, 155, 105, 193>>, <<239, 190, 71, 134>>, <<15, 193, 157, 198>>, <<36, 12, 161, 204>>,
      <<45, 233, 44, 111>>, <<74, 116, 132, 170>>, <<92, 176, 169, 220>>, <<118, 249, 136, 218>>,
      <<152, 62, 81, 82>>, <<168, 49, 198, 109>>, <<176, 3, 39, 200>>, <<191, 89, 127, 199>>,
      <<198, 224, 11, 243>>, <<213, 167, 145, 71>>, <<6, 202, 99, 81>>, <<20, 41, 41, 103>>,
      <<39, 183, 10, 133>>, <<46, 27, 33, 56>>, <<77, 44, 109, 252>>, <<83, 56, 13, 19>>,
      <<101, 10, 115, 84>>, <<118, 106, 10, 187>>, <<129, 194, 201, 46>>, <<146, 114, 44, 133>>,
      <<162, 191, 232, 161>>, <<168, 26, 102, 75>>, <<194, 75, 139, 112>>, <<199, 108, 81, 163>>,
      <<209, 146, 232, 25>>, <<214, 153, 6, 36>>, <<244, 14, 53, 133>>, <<16, 106, 160, 112>>,
      <<25, 164, 193, 22>>, <<30, 55, 108, 8>>, <<39, 72, 119, 76>>, <<52, 176, 188, 181>>,
      <<57, 28, 12, 179>>, <<78, 216, 170, 74>>, <<91, 156, 202, 79>>, <<104, 46, 111, 243>>,
      <<116, 143, 130, 238>>, <<120, 165, 99, 111>>, <<132, 200, 120, 20>>, <<140, 199, 2, 8>>,
      <<144, 190, 255, 250>>, <<164, 80, 108, 235>>, <<190, 249, 163, 247>>, <<198, 113, 120, 242>>>>

\* H_INIT
H_INIT ==
    <<<<106, 9, 230, 103>>, <<187, 103, 174, 133>>, <<60, 110, 243, 114>>, <<165, 79, 245, 58>>,
      <<81, 14, 82, 127>>, <<155, 5, 104, 140>>, <<31, 131, 217, 171>>, <<91, 224, 205, 25>>>>

\* A slip: the zero bytes are counted from the message's length, before the
\* 0x80 byte was appended.
bytes_to_add_before_marker(padded_len) == PyMod(56 - PyMod(padded_len - 1, 64), 64)

\* bytes_to_add = (56 - (len(padded) % 64)) % 64
bytes_to_add(padded_len) == PyMod(56 - PyMod(padded_len, 64), 64)

\* struct.pack('>Q', v), for v below 2^31
pack_Q(v) == be_digits(v, 8)

\* _padding(message)
padding(msg) ==
    LET original_len_bits == Len(msg) * 8
        marked == Append(msg, 128)
        zeros == [i \in 1 .. bytes_to_add(Len(marked)) |-> 0]
    IN  marked \o zeros \o pack_Q(original_len_bits)

\* The loop `for i in range(16, 64)` of _process_chunk: w holds w[0..i-1] (as
\* w[1..i], so that i is Len(w)).
RECURSIVE extend_schedule(_)
extend_schedule(w) ==
    IF Len(w) >= 64 THEN w
    ELSE LET i == Len(w)
             s0 == gamma0(w[i - 15 + 1])
             s1 == gamma1(w[i - 2 + 1])
         IN  extend_schedule(Append(w, add(add(add(w[i - 16 + 1], s0), w[i - 7 + 1]), s1)))

\* The compression loop `for i in range(64)`: v is <<i, a, b, c, d, e, f, g, h0>>.
RECURSIVE compress(_, _)
compress(v, w) ==
    IF v[1] >= 64 THEN v
    ELSE LET i == v[1]
             a == v[2]
             b == v[3]
             c == v[4]
             dd == v[5]
             ee == v[6]
             f == v[7]
             g == v[8]
             h0 == v[9]
             temp1 == add(add(add(add(h0, sigma1(ee)), ch(ee, f, g)), K[i + 1]), w[i + 1])
             temp2 == add(sigma0(a), maj(a, b, c))
         IN  compress(<<i + 1, add(temp1, temp2), a, b, c, add(dd, temp1), ee, f, g>>, w)

\* _process_chunk(chunk, h) for a chunk of 64 bytes: the new hash state.
process_chunk(chunk, hh) ==
    LET w == extend_schedule([i \in 1 .. 16 |->
                 <<chunk[4 * i - 3], chunk[4 * i - 2], chunk[4 * i - 1], chunk[4 * i]>>])
        v == compress(<<0>> \o hh, w)
    IN  [j \in 1 .. 8 |-> add(hh[j], v[j + 1])]

HexDigits == <<"0", "1", "2", "3", "4", "5", "6", "7", "8", "9", "a", "b", "c", "d", "e", "f">>

\* f"{val:08x}"
hex8(val) ==
    HexDigits[(val[1] \div 16) + 1] \o HexDigits[(val[1] % 16) + 1]
    \o HexDigits[(val[2] \div 16) + 1] \o HexDigits[(val[2] % 16) + 1]
    \o HexDigits[(val[3] \div 16) + 1] \o HexDigits[(val[3] % 16) + 1]
    \o HexDigits[(val[4] \div 16) + 1] \o HexDigits[(val[4] % 16) + 1]

\* final_hash: the eight words in hexadecimal, one after the other
final_hash(hh) ==
    hex8(hh[1]) \o hex8(hh[2]) \o hex8(hh[3]) \o hex8(hh[4])
    \o hex8(hh[5]) \o hex8(hh[6]) \o hex8(hh[7]) \o hex8(hh[8])

\* padded_message[i : i + 64] (a slice ends at the end of the bytes)
chunk_at(data, i) ==
    SubSeq(data, i + 1, IF i + 64 <= Len(data) THEN i + 64 ELSE Len(data))

(***************************************************************************)
(* Bounds and inputs of the SHA-256 exploration: one message of every      *)
(* length up to MaxShaLen, "abcdefg..." (the byte at i, from 0, is         *)
(* (97 + i) mod 128: ASCII, which message.encode('utf-8') leaves as is).   *)
(***************************************************************************)
MaxShaLen == 121

ShaMessages == {[i \in 1 .. len |-> (97 + i - 1) % 128] : len \in 0 .. MaxShaLen}

\* hash(message) up to the loop over the chunks.
HashCall ==
    /\ sha_pc = "idle"
    /\ \E msg \in ShaMessages :
          /\ sha_msg' = msg
          /\ padded' = padding(msg)
          /\ sha_pc' = IF Len(padding(msg)) > 0 THEN "chunks" ELSE "done"
          /\ sha_out' = IF Len(padding(msg)) > 0 THEN "" ELSE final_hash(H_INIT)
    /\ h' = H_INIT
    /\ sha_i' = 0
    /\ chunk_lens' = <<>>
    /\ sha_err' = ""
    /\ UNCHANGED <<callVars, mrVars, gpVars, rsaVars, aesVars>>

\* One pass of `for i in range(0, len(padded_message), 64)`: _process_chunk
\* raises on a chunk that is not 64 bytes long; after the last chunk hash
\* returns final_hash.
HashChunk ==
    /\ sha_pc = "chunks"
    /\ LET chunk == chunk_at(padded, sha_i)
       IN  /\ chunk_lens' = Append(chunk_lens, Len(chunk))
           /\ IF Len(chunk) # 64
              THEN /\ sha_pc' = "raised"
                   /\ sha_err' = "ValueError: Chunk must be 64 bytes"
                   /\ UNCHANGED <<h, sha_i, sha_out>>
              ELSE LET hh == process_chunk(chunk, h)
                   IN  /\ h' = hh
                       /\ sha_i' = sha_i + 64
                       /\ sha_err' = ""
                       /\ IF sha_i + 64 < Len(padded)
                          THEN sha_pc' = "chunks" /\ sha_out' = ""
                          ELSE sha_pc' = "done" /\ sha_out' = final_hash(hh)
    /\ UNCHANGED <<sha_msg, padded, callVars, mrVars, gpVars, rsaVars, aesVars>>

(***************************************************************************)
(* Each component before any call.                                         *)
(***************************************************************************)
CallIdle == op = "none" /\ args = <<>> /\ ret = <<>>

MRIdle == mr_pc = "idle" /\ mr_n = 0 /\ mr_k = 0 /\ mr_i = 0 /\ mr_ret = FALSE

GPIdle == gp_pc = "idle" /\ gp_bits = 0 /\ gp_p = 0

RsaIdle ==
    /\ rsa_pc = "idle" /\ bits = 0 /\ p = 0 /\ q = 0 /\ n = 0 /\ phi_n = 0
    /\ e = 0 /\ d = 0 /\ public_key = <<>> /\ message = <<>> /\ ciphertext = <<>> /\ decrypted = <<>>
    /\ rsa_err = ""

AesIdle ==
    /\ aes_pc = "idle" /\ aes_op = "" /\ block = <<>> /\ key = <<>>
    /\ plaintext = <<>> /\ round_keys = <<>> /\ state = <<>> /\ aes_i = 0
    /\ used_keys = <<>> /\ mixed = {} /\ aes_out = <<>> /\ aes_err = ""

ShaIdle ==
    /\ sha_pc = "idle" /\ sha_msg = <<>> /\ padded = <<>> /\ sha_i = 0
    /\ chunk_lens = <<>> /\ h = <<>> /\ sha_out = "" /\ sha_err = ""

(***************************************************************************)
(* The number-theory toolkit on its own.                                   *)
(***************************************************************************)
InitMath == CallIdle /\ MRIdle /\ GPIdle /\ RsaIdle /\ AesIdle /\ ShaIdle

NextMath ==
    \/ CallPowMod
    \/ CallEgcd
    \/ CallModInverse
    \/ CallIsPrime
    \/ MRRound
    \/ CallGeneratePrime
    \/ GPDraw
    \/ GPCheck

SpecMath == InitMath /\ [][NextMath]_vars

(***************************************************************************)
(* RSA: key generation, then encryption and decryption by the caller.      *)
(***************************************************************************)
InitRsa == CallIdle /\ MRIdle /\ GPIdle /\ RsaIdle /\ AesIdle /\ ShaIdle

NextRsa ==
    \/ GenerateKeypairCall
    \/ GPDraw
    \/ MRRound
    \/ GPCheck
    \/ GenerateKeypairResume
    \/ Encrypt
    \/ Decrypt

SpecRsa == InitRsa /\ [][NextRsa]_vars

(***************************************************************************)
(* AES: block calls by a caller.                                           *)
(***************************************************************************)
InitAes == CallIdle /\ MRIdle /\ GPIdle /\ RsaIdle /\ AesIdle /\ ShaIdle

NextAes ==
    \/ EncryptBlockCall
    \/ DecryptBlockCall
    \/ DecryptEncrypted
    \/ EncryptRound
    \/ EncryptFinal
    \/ DecryptRound
    \/ DecryptFinal

SpecAes == InitAes /\ [][NextAes]_vars

(***************************************************************************)
(* SHA-256: hash calls by a caller.                                        *)
(***************************************************************************)
InitSha == CallIdle /\ MRIdle /\ GPIdle /\ RsaIdle /\ AesIdle /\ ShaIdle

NextSha ==
    \/ HashCall
    \/ HashChunk

SpecSha == InitSha /\ [][NextSha]_vars

(***************************************************************************)
(*                              THE CLAIMS                                 *)
(***************************************************************************)

(***************************************************************************)
(* Reference arithmetic, independent of the program's algorithms.          *)
(***************************************************************************)
RECURSIVE PowExact(_, _)
PowExact(a, b) == IF b = 0 THEN 1 ELSE a * PowExact(a, b - 1)

Abs(x) == IF x < 0 THEN 0 - x ELSE x

Divides(k, x) == x % k = 0

IsPrime(x) == x >= 2 /\ \A k \in 2 .. (x - 1) : ~Divides(k, x)

\* gcd(a, m) for m >= 1: the greatest common divisor of |a| and m.
Gcd(a, m) ==
    CHOOSE g \in 1 .. m :
        /\ Divides(g, m) /\ Divides(g, Abs(a))
        /\ \A k \in 1 .. m : (Divides(k, m) /\ Divides(k, Abs(a))) => k <= g

\* C4: for all a >= 0, b >= 0 and m >= 1, pow_mod(a, b, m) returns the exact
\* value of (a^b) mod m, as Python's pow(a, b, m) does.
C4_PowModExact ==
    op = "pow_mod" => ret = PowExact(args[1], args[2]) % args[3]

\* C5: for all nonzero a and b of either sign, egcd(a, b) returns (g, x, y)
\* with a*x + b*y = g.
C5_Bezout ==
    (op = "egcd" /\ args[1] # 0 /\ args[2] # 0)
        => args[1] * ret[2] + args[2] * ret[3] = ret[1]

\* egcd has returned for two negative arguments, with both coefficients in use.
C5_Witness ==
    /\ op = "egcd" /\ args[1] < 0 /\ args[2] < 0
    /\ ret[2] # 0 /\ ret[3] # 0
    /\ args[1] * ret[2] + args[2] * ret[3] = ret[1]

\* C6: for every integer a and every m >= 2, mod_inverse(a, m) returns x with
\* 0 <= x < m and a*x mod m = 1 when gcd(a, m) = 1, and raises exactly when
\* gcd(a, m) # 1.
C6_ModInverseContract ==
    (op = "mod_inverse" /\ args[2] >= 2)
        => IF Gcd(args[1], args[2]) = 1
           THEN /\ ret.raised = ""
                /\ 0 <= ret.value /\ ret.value < args[2]
                /\ (args[1] * ret.value) % args[2] = 1
           ELSE ret.raised # ""

\* C7 as stated: whatever the bases drawn and whatever the round count, the
\* test returns true for every prime and false for 4, 9, 15 and 100.
C7_AnyRoundCount ==
    mr_pc = "done"
        => /\ IsPrime(mr_n) => mr_ret
           /\ mr_n \in {4, 9, 15, 100} => ~mr_ret

\* C7, amended: whatever the bases drawn, the test returns true for every
\* prime with every round count, and false for 4, 9, 15 and 100 with every
\* round count of at least 1.
C7_MillerRabin ==
    mr_pc = "done"
        => /\ IsPrime(mr_n) => mr_ret
           /\ (mr_n \in {4, 9, 15, 100} /\ mr_k >= 1) => ~mr_ret

\* The prime 97 went through all 40 rounds of the default round count.
C7_Witness ==
    mr_pc = "done" /\ mr_n = 97 /\ mr_k = DefaultRounds /\ mr_i = DefaultRounds /\ mr_ret

(***************************************************************************)
(* RSA claims.                                                             *)
(***************************************************************************)
\* The value of a byte string read as a big-endian number.
RECURSIVE BigEndianValue(_)
BigEndianValue(bs) ==
    IF bs = <<>> THEN 0
    ELSE bs[1] * Pow2(8 * (Len(bs) - 1)) + BigEndianValue(Tail(bs))

\* a^b mod m for m >= 1, by the exponent's leading bits first.
RECURSIVE ModExp(_, _, _)
ModExp(a, b, m) ==
    IF b = 0 THEN 1 % m
    ELSE LET half == ModExp(a, b \div 2, m)
             sq == (half * half) % m
         IN  IF b % 2 = 0 THEN sq ELSE (sq * (a % m)) % m

Coprime(a, b) == \A k \in 2 .. b : ~(Divides(k, a) /\ Divides(k, b))

\* Some run of the primality test, for some draws of the bases, accepts x.
MillerRabinCanAccept(x) ==
    \/ x = 2 \/ x = 3
    \/ x >= 5 /\ x % 2 = 1 /\ \E a \in mr_bases(x) : mr_round(a, x)

KeypairReturned == rsa_pc \in {"have_key", "encrypted", "encrypt_raised", "decrypted"} /\ n # 0

NoLeadingZero(bs) == bs = <<>> \/ bs[1] # 0

\* C2 as stated: with a generated key pair, every message whose value is below
\* n comes back from decrypt(encrypt(message)) unchanged.
C2_RoundTripAnyMessage ==
    rsa_pc = "decrypted" => decrypted = message

\* C2, amended: with a generated key pair whose p and q are prime, every
\* message whose value is below n and whose first byte is not zero (the empty
\* message included) comes back from decrypt(encrypt(message)) unchanged.
C2_RoundTrip ==
    (rsa_pc = "decrypted" /\ IsPrime(p) /\ IsPrime(q) /\ NoLeadingZero(message))
        => decrypted = message

\* A two-byte message went through encrypt and decrypt under a generated key.
C2_Witness ==
    /\ rsa_pc = "decrypted" /\ IsPrime(p) /\ IsPrime(q)
    /\ Len(message) = 2 /\ message[1] # 0 /\ decrypted = message
    /\ ciphertext # message

EncryptReturned == rsa_pc \in {"encrypted", "encrypt_raised", "decrypted"}

C1_BlockRoundTrip ==
    (aes_pc = "returned" /\ aes_op = "decrypt_block" /\ plaintext # <<>>)
        => aes_out = plaintext

\* The FIPS-197 C.1 plaintext came back from its AES-128 ciphertext
\* 69 c4 e0 d8 .. 5a.
C1_Witness ==
    /\ aes_pc = "returned" /\ aes_op = "decrypt_block"
    /\ key = Pattern(16, <<1, 0>>)
    /\ plaintext = Pattern(16, <<17, 0>>)
    /\ block = <<105, 196, 224, 216, 106, 123, 4, 48, 216, 205, 183, 128, 112, 180, 197, 90>>
    /\ aes_out = plaintext

AesCallOver == aes_pc \in {"returned", "raised"}

\* C9: encrypt_block and decrypt_block raise an invalid-length error and return
\* nothing whenever the block is not 16 bytes or the key is not 16, 24 or 32
\* bytes, and raise nothing when the block is 16 bytes and the key 16, 24 or
\* 32 bytes.
C9_InvalidLength ==
    /\ AesCallOver =>
          IF Len(block) # 16 \/ Len(key) \notin {16, 24, 32}
          THEN /\ aes_pc = "raised"
               /\ aes_err \in {"ValueError: Block must be 16 bytes",
                               "ValueError: Invalid key length: must be 16, 24, or 32 bytes"}
               /\ aes_out = <<>>
          ELSE /\ aes_pc = "returned" /\ aes_err = "" /\ Len(aes_out) = 16
    /\ (aes_pc \in {"rounds", "final"}) => (Len(block) = 16 /\ Len(key) \in {16, 24, 32})

\* decrypt_block has rejected a 16-byte block under a 17-byte key.
C9_Witness ==
    /\ aes_pc = "raised" /\ aes_op = "decrypt_block"
    /\ Len(block) = 16 /\ Len(key) = 17
    /\ aes_err = "ValueError: Invalid key length: must be 16, 24, or 32 bytes"

\* The round count the claim gives for a key of key_len bytes.
StatedRounds(key_len) == IF key_len = 16 THEN 10 ELSE IF key_len = 24 THEN 12 ELSE 14

AesKeysExpanded == aes_pc \in {"rounds", "final", "returned"}

\* C12: for a key of 16, 24 or 32 bytes _key_expansion returns Nr + 1 round
\* keys of 16 bytes each with Nr = 10, 12 or 14; one encrypt_block call hands
\* every round key to _add_round_key exactly once in the order 0, 1, .., Nr, one
\* decrypt_block call in the order Nr, .., 1, 0, and the columns are mixed in
\* every round but the final one.
C12_RoundKeySchedule ==
    /\ AesKeysExpanded =>
          /\ DOMAIN round_keys = 0 .. StatedRounds(Len(key))
          /\ \A i \in DOMAIN round_keys : Len(round_keys[i]) = 16
    /\ aes_pc = "returned" =>
          LET Nr == StatedRounds(Len(key))
          IN  /\ Len(used_keys) = Nr + 1
              /\ \A j \in 1 .. Len(used_keys) :
                    used_keys[j] = IF aes_op = "encrypt_block" THEN j - 1 ELSE Nr + 1 - j
              /\ mixed = 1 .. (Nr - 1)

(***************************************************************************)
(* SHA-256 claims.                                                         *)
(***************************************************************************)
\* The count z in 0..63 with L + 1 + z congruent to 56 mod 64 (there is one).
ZeroCount(L) == CHOOSE z \in 0 .. 63 : (L + 1 + z) % 64 = 56

\* C10: for a message of L bytes, _padding returns message + 0x80 + z zero
\* bytes + the 8-byte big-endian encoding of 8*L, with z the smallest count in
\* 0..63 making L + 1 + z congruent to 56 mod 64; the padded length is a
\* positive multiple of 64, every chunk handed to _process_chunk has 64 bytes
\* and the chunk-length error is never raised.
C10_Padding ==
    sha_pc # "idle"
        => LET L == Len(sha_msg)
               z == ZeroCount(L)
               field == SubSeq(padded, L + 1 + z + 1, Len(padded))
           IN  /\ Len(padded) = L + 1 + z + 8
               /\ SubSeq(padded, 1, L) = sha_msg
               /\ padded[L + 1] = 128
               /\ \A i \in (L + 2) .. (L + 1 + z) : padded[i] = 0
               /\ \A i \in 1 .. 5 : field[i] = 0
               /\ BigEndianValue(SubSeq(field, 6, 8)) = 8 * L
               /\ Len(padded) > 0 /\ Len(padded) % 64 = 0
               /\ \A i \in 1 .. Len(chunk_lens) : chunk_lens[i] = 64
               /\ sha_pc # "raised" /\ sha_err = ""

\* A 56-byte message, which needs 63 zero bytes and a second chunk, has been
\* hashed through both chunks.
C10_Witness ==
    /\ sha_pc = "done" /\ Len(sha_msg) = 56 /\ Len(padded) = 128
    /\ chunk_lens = <<64, 64>> /\ padded[58] = 0 /\ padded[127] = 1 /\ padded[128] = 192

\* C11 as stated: hash of the empty input returns the 63 characters quoted.
C11_EmptyDigestAsQuoted ==
    (sha_pc = "done" /\ sha_msg = <<>>)
        => sha_out = "e3b0c44298fc1c149afbf4c8996fb92427ae41e4649b934ca495991b7852b85"

\* C11, amended: hash of the empty input returns
\* e3b0c44298fc1c149afbf4c8996fb92427ae41e4649b934ca495991b7852b855, and every
\* digest hash returns is a string of 64 characters (lowercase hexadecimal, as
\* hex8 writes them).
C11_EmptyDigest ==
    sha_pc = "done"
        => /\ Len(sha_out) = 64
           /\ sha_msg = <<>>
                => sha_out = "e3b0c44298fc1c149afbf4c8996fb92427ae41e4649b934ca495991b7852b855"

\* hash has returned for the empty input, after the one chunk of its padding.
C11_Witness ==
    /\ sha_pc = "done" /\ sha_msg = <<>> /\ Len(padded) = 64 /\ chunk_lens = <<64>>
    /\ sha_i = 64 /\ Len(sha_out) = 64

(***************************************************************************)
(* generate_prime claims.                                                  *)
(***************************************************************************)
\* x is odd and lies in [2^(b-1), 2^b), so that its bit length is exactly b.
OddOfExactBits(x, b) ==
    /\ x % 2 = 1
    /\ PowExact(2, b - 1) <= x /\ x < PowExact(2, b)
    /\ bit_length(x) = b

\* C13: for every bits >= 2 and every outcome of the draws, a value p returned
\* by generate_prime(bits) is odd, lies in [2^(bits-1), 2^bits), has bit length
\* exactly bits and was accepted by the Miller-Rabin test; every candidate the
\* loop hands to the test is odd and within that range too.
C13_GeneratePrime ==
    /\ (gp_pc = "test" /\ gp_bits >= 2)
          => /\ OddOfExactBits(gp_p, gp_bits)
             /\ mr_n = gp_p /\ mr_k = DefaultRounds
    /\ (gp_pc = "done" /\ gp_bits >= 2)
          => /\ OddOfExactBits(gp_p, gp_bits)
             /\ mr_n = gp_p /\ mr_k = DefaultRounds /\ mr_ret
             /\ MillerRabinCanAccept(gp_p)

\* generate_prime(5) has returned 31, the candidate at the top of the range
\* (the draw 30 made odd, or the draw 31), after the test's 40 rounds.
C13_Witness ==
    /\ gp_pc = "done" /\ gp_bits = 5 /\ gp_p = 31
    /\ mr_ret /\ mr_i = DefaultRounds /\ rsa_pc = "idle"
==========================================================================
